---- MODULE Spec2Model ----
(***************************************************************************)
(* Model of the yfinance MCP server (src/server.py): seven tool entry      *)
(* points that resolve a ticker with the upstream provider, fetch one      *)
(* dataset, reshape it and return a string.                                *)
(*                                                                         *)
(* Python strings are TLA+ strings; Python scalar values are records       *)
(* [type, repr]; Python dicts are sequences of <<key, value>> pairs in     *)
(* insertion order.                                                        *)
(***************************************************************************)
EXTENDS Integers, Sequences, FiniteSets, TLC

(* ---------------------------- bounds ---------------------------------- *)
MaxCalls == 2
MaxCols == 2
MaxRows == 2
MaxInfoKeys == 3

(* ------------------------- string helpers ----------------------------- *)
StartsWith(s, prefix) ==
    /\ Len(s) >= Len(prefix)
    /\ SubSeq(s, 1, Len(prefix)) = prefix

Contains(s, sub) ==
    \E i \in 1..(Len(s) - Len(sub) + 1) : SubSeq(s, i, i + Len(sub) - 1) = sub

RECURSIVE Join(_, _)
Join(strs, sep) ==
    IF Len(strs) = 0 THEN ""
    ELSE IF Len(strs) = 1 THEN strs[1]
    ELSE strs[1] \o sep \o Join(Tail(strs), sep)

Range(s) == {s[i] : i \in 1..Len(s)}

IsInjective(s) == \A i, j \in 1..Len(s) : s[i] = s[j] => i = j

SeqsUpTo(S, n) == UNION {[1..k -> S] : k \in 0..n}

(* ------------------------- Python values ------------------------------ *)
PyNone == [type |-> "NoneType", repr |-> "None"]
PyNaN == [type |-> "float", repr |-> "nan"]
PyFloat(r) == [type |-> "float", repr |-> r]
PyStr(s) == [type |-> "str", repr |-> s]

\* pd.isna on a scalar
isna(value) == value = PyNaN \/ value = PyNone

(* ------------------------- Python dicts ------------------------------- *)
DictKeys(d) == {d[i][1] : i \in 1..Len(d)}

DictGet(d, k) == d[CHOOSE i \in 1..Len(d) : d[i][1] = k][2]

\* d[k] = v : an existing key keeps its position and takes the new value
DictSet(d, k, v) ==
    IF k \in DictKeys(d)
    THEN [i \in 1..Len(d) |-> IF d[i][1] = k THEN <<k, v>> ELSE d[i]]
    ELSE Append(d, <<k, v>>)

(* --------------------------- json.dumps ------------------------------- *)
json_scalar(v) ==
    IF v.type = "NoneType" THEN "null"
    ELSE IF v.type = "str" THEN "\"" \o v.repr \o "\""
    ELSE IF v = PyNaN THEN "NaN"
    ELSE v.repr

json_object(d) ==
    "{" \o Join([i \in 1..Len(d) |-> "\"" \o d[i][1] \o "\": " \o json_scalar(d[i][2])], ", ") \o "}"

json_dumps_list(l) ==
    "[" \o Join([i \in 1..Len(l) |-> json_object(l[i])], ", ") \o "]"

(* ---------------------- DataFrame.to_json ----------------------------- *)
\* orient="records": compact separators, NaN and None are written as null
to_json_scalar(v) ==
    IF isna(v) THEN "null"
    ELSE IF v.type = "str" THEN "\"" \o v.repr \o "\""
    ELSE v.repr

to_json_record(d) ==
    "{" \o Join([i \in 1..Len(d) |-> "\"" \o d[i][1] \o "\":" \o to_json_scalar(d[i][2])], ",") \o "}"

to_json_records(rows) ==
    "[" \o Join([i \in 1..Len(rows) |-> to_json_record(rows[i])], ",") \o "]"

\* frame.reset_index(names=name): the index becomes the first column
reset_index(frame, name) ==
    [i \in 1..Len(frame) |-> <<<<name, frame[i].index>>>> \o frame[i].columns]

\* records orientation drops the index
drop_index(frame) == [i \in 1..Len(frame) |-> frame[i].columns]

(* ------------------- enumerations and constants ----------------------- *)
\* class FinancialType(str, Enum): the member values, in declaration order
FinancialType ==
    <<"income_stmt", "quarterly_income_stmt", "balance_sheet",
      "quarterly_balance_sheet", "cashflow", "quarterly_cashflow">>

Tools ==
    {"get_historical_stock_prices", "get_stock_info", "get_yahoo_finance_news",
     "get_stock_actions", "get_financial_statement", "get_holder_info",
     "get_recommendations"}

\* f"{FinancialType.x}": the member's value before Python 3.11, the qualified
\* member name from Python 3.11 on (Enum.__format__ follows Enum.__str__)
EnumFormats == {"value", "qualified"}

FormatMember(fmt, member) ==
    IF fmt = "value" THEN member ELSE "FinancialType." \o member

\* the allow-list of get_stock_info
relevant_keys ==
    {"symbol", "longName", "shortName", "sector", "industry", "website", "currency",
     "marketCap", "trailingPE", "forwardPE", "priceToBook", "trailingEps",
     "forwardEps", "bookValue", "earningsGrowth", "revenueGrowth",
     "netIncomeToCommon", "profitMargins", "grossMargins", "operatingMargins",
     "returnOnAssets", "returnOnEquity", "totalRevenue", "totalCash", "totalDebt",
     "debtToEquity", "currentRatio", "quickRatio", "dividendRate", "dividendYield",
     "payoutRatio", "trailingAnnualDividendRate", "trailingAnnualDividendYield",
     "currentPrice", "fiftyDayAverage", "twoHundredDayAverage", "fiftyTwoWeekLow",
     "fiftyTwoWeekHigh", "regularMarketChangePercent", "fiftyTwoWeekChangePercent",
     "volume", "averageVolume", "averageDailyVolume3Month", "beta"}

(* ----------------------------- messages ------------------------------- *)
NotFoundMsg(ticker) == "Company ticker " \o ticker \o " not found."

ErrorAction(tool) ==
    CASE tool = "get_historical_stock_prices" -> "getting historical stock prices"
      [] tool = "get_stock_info" -> "getting stock information"
      [] tool = "get_yahoo_finance_news" -> "getting news"
      [] tool = "get_stock_actions" -> "getting stock actions"
      [] tool = "get_financial_statement" -> "getting financial statement"
      [] tool = "get_holder_info" -> "getting holder info"
      [] tool = "get_recommendations" -> "getting recommendations"

ErrorMsg(tool, ticker, e) ==
    "Error: " \o ErrorAction(tool) \o " for " \o ticker \o ": " \o e

InvalidTypeMsg(financial_type, fmt) ==
    "Error: invalid financial type " \o financial_type
        \o ". Please use one of the following: "
        \o Join([i \in 1..Len(FinancialType) |-> FormatMember(fmt, FinancialType[i])], ", ")
        \o "."

NoNewsMsg(ticker) ==
    "No news found for company that searched with " \o ticker \o " ticker."

(* ------------------------ statement tables ---------------------------- *)
Timestamp(y, m, d) == [type |-> "Timestamp", year |-> y, month |-> m, day |-> d, label |-> ""]
PlainKey(s) == [type |-> "str", year |-> 0, month |-> 0, day |-> 0, label |-> s]

Pad2(n) == IF n < 10 THEN "0" \o ToString(n) ELSE ToString(n)

\* column.strftime("%Y-%m-%d") for a pd.Timestamp, str(column) otherwise
date_str(column) ==
    IF column.type = "Timestamp"
    THEN ToString(column.year) \o "-" \o Pad2(column.month) \o "-" \o Pad2(column.day)
    ELSE column.label

\* None if pd.isna(value) else value
CellPassedThrough(value) == value

CellValue(value) == IF isna(value) THEN PyNone ELSE value

\* for index, value in financial_statement[column].items(): date_obj[index] = ...
RECURSIVE AddMetrics(_, _, _, _)
AddMetrics(date_obj, table, j, i) ==
    IF i > Len(table.index) THEN date_obj
    ELSE AddMetrics(DictSet(date_obj, table.index[i], CellValue(table.cells[i][j])),
                    table, j, i + 1)

ColumnRecord(table, j) ==
    AddMetrics(<<<<"date", PyStr(date_str(table.columns[j]))>>>>, table, j, 1)

\* for column in financial_statement.columns: result.append(date_obj)
Normalize(table) == [j \in 1..Len(table.columns) |-> ColumnRecord(table, j)]

(* ------------------------- info projection ---------------------------- *)
\* {k: v for k, v in info.items() if k in relevant_keys}
TrimKeepsAll(info) == info

RECURSIVE Trim(_)
Trim(info) ==
    IF Len(info) = 0 THEN <<>>
    ELSE IF info[1][1] \in relevant_keys THEN <<info[1]>> \o Trim(Tail(info))
    ELSE Trim(Tail(info))

(* -------------------------- news extraction --------------------------- *)
NewsBlock(item) ==
    "Title: " \o item.title \o "\nSummary: " \o item.summary
        \o "\nDescription: " \o item.description \o "\nURL: " \o item.url

RECURSIVE NewsList(_)
NewsList(news) ==
    IF Len(news) = 0 THEN <<>>
    ELSE IF news[1].contentType = "STORY"
         THEN <<NewsBlock(news[1])>> \o NewsList(Tail(news))
         ELSE NewsList(Tail(news))

(* ------------------------ the upstream provider ----------------------- *)
Tickers == {"AAPL", "INVALIDTICKERXYZ"}

ISIN == PyStr("US0378331005")

\* the message of an exception raised by the provider
ProviderError == "timed out"

\* a cell that tells the two tickers' data apart
Quote(t) == IF t = "AAPL" THEN PyFloat("7.0") ELSE PyFloat("9.0")

ColumnKeys == {Timestamp(2024, 12, 31), Timestamp(2023, 9, 5), PlainKey("TTM")}
MetricNames == {"NetIncome", "date", "EBIT"}
CellValues == {PyNaN, PyFloat("7.0")}

\* tables keyed by (metric name, column key): no duplicate labels
Tables ==
    UNION {UNION {{[columns |-> c, index |-> r, cells |-> cells] :
                        cells \in [1..Len(r) -> [1..Len(c) -> CellValues]]} :
                  r \in {x \in SeqsUpTo(MetricNames, MaxRows) : IsInjective(x)}} :
           c \in {x \in SeqsUpTo(ColumnKeys, MaxCols) : IsInjective(x)}}

SampleTable(t) ==
    [columns |-> <<Timestamp(2024, 12, 31), Timestamp(2023, 9, 5)>>,
     index |-> <<"NetIncome", "EBIT">>,
     cells |-> <<<<Quote(t), PyNaN>>, <<PyNaN, Quote(t)>>>>]

InfoKeyOrder == <<"symbol", "address1", "beta", "zip">>
InfoValues == {PyFloat("1.5"), PyNone}

\* info bags: every choice of present keys among the first MaxInfoKeys, any values
RECURSIVE BagsOver(_)
BagsOver(n) ==
    IF n = 0 THEN {<<>>}
    ELSE LET rest == BagsOver(n - 1) IN
         rest \cup {Append(b, <<InfoKeyOrder[n], v>>) : b \in rest, v \in InfoValues}

InfoBags == BagsOver(IF MaxInfoKeys < Len(InfoKeyOrder) THEN MaxInfoKeys ELSE Len(InfoKeyOrder))

SampleInfo(t) == <<<<"symbol", PyStr(t)>>, <<"address1", PyStr("One Loop")>>, <<"beta", Quote(t)>>>>

Story(t) ==
    [contentType |-> "STORY", title |-> t \o " up", summary |-> "s",
     description |-> "", url |-> "https://y/" \o t]
Video == [contentType |-> "VIDEO", title |-> "clip", summary |-> "", description |-> "", url |-> ""]

NewsFeeds(t) == {<<>>, <<Video>>, <<Video, Story(t)>>}

Row(name, t) == [index |-> PyStr("2024-01-02T00:00:00.000"), columns |-> <<<<name, Quote(t)>>>>]
Frames(t) == {<<>>, <<Row("Close", t), [Row("Close", t) EXCEPT !.columns = <<<<"Close", PyNaN>>>>]>>}

Snapshot(isin, info, news, frame, statement) ==
    [isin |-> isin, info |-> info, news |-> news, frame |-> frame, statement |-> statement]

SampleSnapshot(t, isin) ==
    Snapshot(isin, SampleInfo(t), <<Video, Story(t)>>, <<Row("Close", t)>>, SampleTable(t))

(* ------------------------------ state --------------------------------- *)
VARIABLES
    yahoo,   \* ticker -> what the provider holds for it
    calls    \* call id -> the tool call's request, locals and outcome

vars == <<yahoo, calls>>

CallIds == 1..MaxCalls

IdleCall ==
    [pc |-> "idle", tool |-> "", ticker |-> "", financial_type |-> "",
     company |-> "", trace |-> <<>>, doc |-> <<>>, printed |-> <<>>,
     result |-> "", raised |-> FALSE]

FinancialTypeInputs == Range(FinancialType) \cup {"bogus"}

Request(tool, ticker, ft) == [tool |-> tool, ticker |-> ticker, financial_type |-> ft]

AllRequests ==
    {Request(tool, t, "") : tool \in Tools \ {"get_financial_statement"}, t \in Tickers}
        \cup {Request("get_financial_statement", t, ft) : t \in Tickers, ft \in FinancialTypeInputs}

ConcRequests == {r \in AllRequests : r.financial_type \in {"", "cashflow", "bogus"}}

StmtRequests ==
    {r \in AllRequests : r.tool = "get_financial_statement" /\ r.ticker = "AAPL"
                         /\ r.financial_type \in {"income_stmt", "quarterly_cashflow", "bogus"}}

InfoRequests == {r \in AllRequests : r.tool = "get_stock_info"}

Event(op, out) == [op |-> op, out |-> out]

\* return s
Return(call, s) == [call EXCEPT !.pc = "done", !.result = s]

\* print(s); return s
PrintReturn(call, s) == [call EXCEPT !.pc = "done", !.result = s, !.printed = Append(@, s)]

\* an exception leaves the tool function
Escape(call) == [call EXCEPT !.pc = "done", !.raised = TRUE]

Log(call, op, out) == [call EXCEPT !.trace = Append(@, Event(op, out))]

\* the provider handle a call reads through: its own local `company`
CompanyOfFirstCall(c) == IF calls[1].pc # "idle" THEN calls[1].company ELSE calls[c].company

CompanyOf(c) == calls[c].company

Data(c) == yahoo[CompanyOf(c)]

\* company.isin is None
IsinNeverNone(c) == FALSE

IsinIsNone(c) == Data(c).isin = PyNone

\* the if/elif chain of get_financial_statement: the accessor read for a valid type
StatementAccessorAnnualOnly(financial_type) ==
    CASE financial_type = "income_stmt" -> "income_stmt"
      [] financial_type = "quarterly_income_stmt" -> "income_stmt"
      [] financial_type = "balance_sheet" -> "balance_sheet"
      [] financial_type = "quarterly_balance_sheet" -> "balance_sheet"
      [] financial_type = "cashflow" -> "cashflow"
      [] financial_type = "quarterly_cashflow" -> "cashflow"

StatementAccessor(financial_type) ==
    CASE financial_type = "income_stmt" -> "income_stmt"
      [] financial_type = "quarterly_income_stmt" -> "quarterly_income_stmt"
      [] financial_type = "balance_sheet" -> "balance_sheet"
      [] financial_type = "quarterly_balance_sheet" -> "quarterly_balance_sheet"
      [] financial_type = "cashflow" -> "cashflow"
      [] financial_type = "quarterly_cashflow" -> "quarterly_cashflow"

IsFinancialType(financial_type) == financial_type \in Range(FinancialType)

(* ----------------------------- actions -------------------------------- *)
\* the host calls a tool: company = yf.Ticker(ticker). Only get_stock_actions
\* builds the handle inside a try block, and it has no isin check.
Invoke(c, Requests) ==
    /\ calls[c].pc = "idle"
    /\ \E r \in Requests, out \in {"ok", "raise"} :
        LET started == [IdleCall EXCEPT !.tool = r.tool, !.ticker = r.ticker,
                                        !.financial_type = r.financial_type,
                                        !.trace = <<Event("Ticker", out)>>]
        IN calls' = [calls EXCEPT ![c] =
            IF out = "raise"
            THEN IF r.tool = "get_stock_actions"
                 THEN PrintReturn(started, ErrorMsg(r.tool, r.ticker, ProviderError))
                 ELSE Escape(started)
            ELSE [started EXCEPT !.company = r.ticker,
                                 !.pc = IF r.tool = "get_stock_actions"
                                        THEN "fetch" ELSE "resolve"]]
    /\ UNCHANGED yahoo

\* try: if company.isin is None: print, return not found / except: print, return Error
Resolve(c) ==
    /\ calls[c].pc = "resolve"
    /\ \E out \in {"ok", "raise"} :
        LET call == calls[c] IN
        calls' = [calls EXCEPT ![c] =
            IF out = "raise"
            THEN PrintReturn(Log(call, "isin", "raise"),
                             ErrorMsg(call.tool, call.ticker, ProviderError))
            ELSE IF IsinIsNone(c)
            THEN PrintReturn(Log(call, "isin", "None"), NotFoundMsg(call.ticker))
            ELSE [Log(call, "isin", "ok") EXCEPT !.pc = "fetch"]]
    /\ UNCHANGED yahoo

AtFetch(c, tool) == calls[c].pc = "fetch" /\ calls[c].tool = tool

\* company.history(...).reset_index(names="Date").to_json(orient="records", ...)
FetchHistory(c) ==
    /\ AtFetch(c, "get_historical_stock_prices")
    /\ \E out \in {"ok", "raise"} :
        LET call == Log(calls[c], "history", out) IN
        calls' = [calls EXCEPT ![c] =
            IF out = "raise" THEN Escape(call)
            ELSE Return(call, to_json_records(reset_index(Data(c).frame, "Date")))]
    /\ UNCHANGED yahoo

\* info = company.info; trimmed_info = {...}; return json.dumps(trimmed_info)
FetchInfo(c) ==
    /\ AtFetch(c, "get_stock_info")
    /\ \E out \in {"ok", "raise"} :
        LET call == Log(calls[c], "info", out)
            trimmed_info == Trim(Data(c).info)
        IN calls' = [calls EXCEPT ![c] =
            IF out = "raise" THEN Escape(call)
            ELSE Return([call EXCEPT !.doc = trimmed_info], json_object(trimmed_info))]
    /\ UNCHANGED yahoo

\* try: news = company.news / except: print, return Error
FetchNews(c) ==
    /\ AtFetch(c, "get_yahoo_finance_news")
    /\ \E out \in {"ok", "raise"} :
        LET call == Log(calls[c], "news", out) IN
        calls' = [calls EXCEPT ![c] =
            IF out = "raise"
            THEN PrintReturn(call, ErrorMsg(call.tool, call.ticker, ProviderError))
            ELSE [call EXCEPT !.pc = "fetch2"]]
    /\ UNCHANGED yahoo

\* for news in company.news: ... ; the second read is outside any try block
ReadNews(c) ==
    /\ calls[c].pc = "fetch2"
    /\ \E out \in {"ok", "raise"} :
        LET call == Log(calls[c], "news", out)
            news_list == NewsList(Data(c).news)
        IN calls' = [calls EXCEPT ![c] =
            IF out = "raise" THEN Escape(call)
            ELSE IF Len(news_list) = 0 THEN PrintReturn(call, NoNewsMsg(call.ticker))
            ELSE Return(call, Join(news_list, "\n\n"))]
    /\ UNCHANGED yahoo

\* actions_df = company.actions; reset_index(names="Date"); to_json(...)
FetchActions(c) ==
    /\ AtFetch(c, "get_stock_actions")
    /\ \E out \in {"ok", "raise"} :
        LET call == Log(calls[c], "actions", out) IN
        calls' = [calls EXCEPT ![c] =
            IF out = "raise" THEN Escape(call)
            ELSE Return(call, to_json_records(reset_index(Data(c).frame, "Date")))]
    /\ UNCHANGED yahoo

\* the accessor chain, then the per-column records and json.dumps(result)
FetchStatement(c) ==
    /\ AtFetch(c, "get_financial_statement")
    /\ \E out \in {"ok", "raise"}, fmt \in EnumFormats :
        LET call == calls[c]
            ft == call.financial_type
            result == Normalize(Data(c).statement)
        IN calls' = [calls EXCEPT ![c] =
            IF ~IsFinancialType(ft)
            THEN Return(Log(call, "format", fmt), InvalidTypeMsg(ft, fmt))
            ELSE IF out = "raise" THEN Escape(Log(call, StatementAccessor(ft), out))
            ELSE Return([Log(call, StatementAccessor(ft), out) EXCEPT !.doc = result],
                        json_dumps_list(result))]
    /\ UNCHANGED yahoo

\* return company.major_holders.reset_index(names="metric").to_json(orient="records")
FetchHolders(c) ==
    /\ AtFetch(c, "get_holder_info")
    /\ \E out \in {"ok", "raise"} :
        LET call == Log(calls[c], "major_holders", out) IN
        calls' = [calls EXCEPT ![c] =
            IF out = "raise" THEN Escape(call)
            ELSE Return(call, to_json_records(reset_index(Data(c).frame, "metric")))]
    /\ UNCHANGED yahoo

\* try: return company.recommendations.to_json(orient="records") / except: print, return
FetchRecommendations(c) ==
    /\ AtFetch(c, "get_recommendations")
    /\ \E out \in {"ok", "raise"} :
        LET call == Log(calls[c], "recommendations", out) IN
        calls' = [calls EXCEPT ![c] =
            IF out = "raise"
            THEN PrintReturn(call, ErrorMsg(call.tool, call.ticker, ProviderError))
            ELSE Return(call, to_json_records(drop_index(Data(c).frame)))]
    /\ UNCHANGED yahoo

(* -------------------------- specifications ---------------------------- *)
NoCalls == [c \in CallIds |-> IdleCall]

SmallSnapshots(t) ==
    {Snapshot(isin, SampleInfo(t), news, frame, SampleTable(t)) :
        isin \in {PyNone, ISIN}, news \in NewsFeeds(t), frame \in Frames(t)}

\* one tool call at a time, every request
Init ==
    /\ yahoo \in [Tickers -> UNION {SmallSnapshots(t) : t \in Tickers}]
    /\ \A t \in Tickers : yahoo[t] \in SmallSnapshots(t)
    /\ calls = NoCalls

Next ==
    \/ Invoke(1, AllRequests)
    \/ Resolve(1)
    \/ FetchHistory(1)
    \/ FetchInfo(1)
    \/ FetchNews(1)
    \/ ReadNews(1)
    \/ FetchActions(1)
    \/ FetchStatement(1)
    \/ FetchHolders(1)
    \/ FetchRecommendations(1)

Spec == Init /\ [][Next]_vars

\* tool calls interleaved at their provider calls
InitConc ==
    /\ yahoo = [t \in Tickers |-> SampleSnapshot(t, IF t = "AAPL" THEN ISIN ELSE PyNone)]
    /\ calls = NoCalls

NextConc ==
    \E c \in CallIds :
        \/ Invoke(c, ConcRequests)
        \/ Resolve(c)
        \/ FetchHistory(c)
        \/ FetchInfo(c)
        \/ FetchNews(c)
        \/ ReadNews(c)
        \/ FetchActions(c)
        \/ FetchStatement(c)
        \/ FetchHolders(c)
        \/ FetchRecommendations(c)

SpecConc == InitConc /\ [][NextConc]_vars

\* get_financial_statement over every statement table
InitStmt ==
    /\ \E isin \in {PyNone, ISIN}, table \in Tables :
        yahoo = [t \in Tickers |->
                    Snapshot(isin, SampleInfo(t), <<>>, <<>>,
                             IF isin = PyNone THEN SampleTable(t) ELSE table)]
    /\ calls = NoCalls

NextStmt ==
    \/ Invoke(1, StmtRequests)
    \/ Resolve(1)
    \/ FetchStatement(1)

SpecStmt == InitStmt /\ [][NextStmt]_vars

\* get_stock_info over every info bag
InitInfo ==
    /\ \E isin \in {PyNone, ISIN}, info \in InfoBags :
        yahoo = [t \in Tickers |->
                    Snapshot(isin, IF isin = PyNone THEN SampleInfo(t) ELSE info,
                             <<>>, <<>>, SampleTable(t))]
    /\ calls = NoCalls

NextInfo ==
    \/ Invoke(1, InfoRequests)
    \/ Resolve(1)
    \/ FetchInfo(1)

SpecInfo == InitInfo /\ [][NextInfo]_vars

(* ------------------------ reading a call's state ----------------------- *)
Done(c) == calls[c].pc = "done"

Ops(c) == [i \in 1..Len(calls[c].trace) |-> calls[c].trace[i].op]

DataAccessors ==
    {"history", "info", "news", "actions", "major_holders", "recommendations"}
        \cup Range(FinancialType)

IsDataAccessor(op) == op \in DataAccessors
IsStatementAccessor(op) == op \in Range(FinancialType)

ProviderRaised(c) == \E i \in 1..Len(calls[c].trace) : calls[c].trace[i].out = "raise"

Resolved(c) == \E i \in 1..Len(calls[c].trace) : calls[c].trace[i] = Event("isin", "ok")

Handled(c) == Len(calls[c].trace) >= 1 /\ calls[c].trace[1] = Event("Ticker", "ok")

IsFailureResult(c) ==
    \/ calls[c].result = NotFoundMsg(calls[c].ticker)
    \/ StartsWith(calls[c].result, "Error: ")

\* a statement call that produced the per-column records
Normalized(c) ==
    /\ Done(c)
    /\ calls[c].tool = "get_financial_statement"
    /\ IsFinancialType(calls[c].financial_type)
    /\ Resolved(c)
    /\ ~calls[c].raised

(* ------------------------------ claims -------------------------------- *)

\* C1: in every tool, a ticker whose isin is None (and no provider exception)
\* ends in the exact not-found string, with no exception leaving the tool.
C1_NotFoundInEveryTool ==
    \A c \in CallIds :
        (Done(c) /\ yahoo[calls[c].ticker].isin = PyNone /\ ~ProviderRaised(c))
            => (~calls[c].raised /\ calls[c].result = NotFoundMsg(calls[c].ticker))

\* C2: in every tool, a provider exception at any step ends in a returned string
\* that begins with "Error: "; no exception leaves the tool function.
C2_EveryExceptionReturnedAsError ==
    \A c \in CallIds :
        (Done(c) /\ Handled(c) /\ ProviderRaised(c))
            => (~calls[c].raised /\ StartsWith(calls[c].result, "Error: "))

C4_EveryFailurePrinted ==
    \A c \in CallIds :
        (Done(c) /\ ~calls[c].raised /\ IsFailureResult(c))
            => calls[c].result \in Range(calls[c].printed)

\* C5: in every tool, a provider data fetch is made only after the isin check of
\* the same call has succeeded.
C5_ResolutionBeforeFetch ==
    \A c \in CallIds :
        \A i \in 1..Len(calls[c].trace) :
            IsDataAccessor(calls[c].trace[i].op)
                => \E j \in 1..(i - 1) : calls[c].trace[j] = Event("isin", "ok")

\* What a call shows after the provider answered `trace`, when it runs alone on
\* request r: where it stands, what it returned, printed, and whether it raised.
Shown(pc, result, printed, raised) ==
    [pc |-> pc, result |-> result, printed |-> printed, raised |-> raised]

ShownReturn(s) == Shown("done", s, <<>>, FALSE)
ShownPrintReturn(s) == Shown("done", s, <<s>>, FALSE)
ShownEscape == Shown("done", "", <<>>, TRUE)
ShownAt(pc) == Shown(pc, "", <<>>, FALSE)

AloneFetch(r, trace) ==
    LET snap == yahoo[r.ticker]
        err == ErrorMsg(r.tool, r.ticker, ProviderError)
        first == Head(trace)
    IN CASE r.tool = "get_historical_stock_prices" ->
                IF first.out = "raise" THEN ShownEscape
                ELSE ShownReturn(to_json_records(reset_index(snap.frame, "Date")))
         [] r.tool = "get_stock_actions" ->
                IF first.out = "raise" THEN ShownEscape
                ELSE ShownReturn(to_json_records(reset_index(snap.frame, "Date")))
         [] r.tool = "get_holder_info" ->
                IF first.out = "raise" THEN ShownEscape
                ELSE ShownReturn(to_json_records(reset_index(snap.frame, "metric")))
         [] r.tool = "get_recommendations" ->
                IF first.out = "raise" THEN ShownPrintReturn(err)
                ELSE ShownReturn(to_json_records(drop_index(snap.frame)))
         [] r.tool = "get_stock_info" ->
                IF first.out = "raise" THEN ShownEscape
                ELSE ShownReturn(json_object(Trim(snap.info)))
         [] r.tool = "get_yahoo_finance_news" ->
                IF first.out = "raise" THEN ShownPrintReturn(err)
                ELSE IF Len(trace) = 1 THEN ShownAt("fetch2")
                ELSE IF trace[2].out = "raise" THEN ShownEscape
                ELSE IF NewsList(snap.news) = <<>> THEN ShownPrintReturn(NoNewsMsg(r.ticker))
                ELSE ShownReturn(Join(NewsList(snap.news), "\n\n"))
         [] r.tool = "get_financial_statement" ->
                IF first.op = "format"
                THEN ShownReturn(InvalidTypeMsg(r.financial_type, first.out))
                ELSE IF first.out = "raise" THEN ShownEscape
                ELSE ShownReturn(json_dumps_list(Normalize(snap.statement)))

RunAlone(r, trace) ==
    LET err == ErrorMsg(r.tool, r.ticker, ProviderError) IN
    IF r.tool = "get_stock_actions"
    THEN IF trace[1].out = "raise" THEN ShownPrintReturn(err)
         ELSE IF Len(trace) = 1 THEN ShownAt("fetch")
         ELSE AloneFetch(r, Tail(trace))
    ELSE IF trace[1].out = "raise" THEN ShownEscape
         ELSE IF Len(trace) = 1 THEN ShownAt("resolve")
         ELSE IF trace[2].out = "raise" THEN ShownPrintReturn(err)
         ELSE IF yahoo[r.ticker].isin = PyNone THEN ShownPrintReturn(NotFoundMsg(r.ticker))
         ELSE IF Len(trace) = 2 THEN ShownAt("fetch")
         ELSE AloneFetch(r, Tail(Tail(trace)))

\* C6: under any interleaving of concurrent calls, every call stands where, and
\* returns what, the same call does when run alone against the same provider
\* responses: no call reads or writes another call's state.
C6_CallsDoNotInteract ==
    \A c \in CallIds :
        calls[c].pc # "idle" =>
            Shown(calls[c].pc, calls[c].result, calls[c].printed, calls[c].raised)
                = RunAlone(Request(calls[c].tool, calls[c].ticker, calls[c].financial_type),
                           calls[c].trace)

\* two calls for different tickers, both past resolution and suspended at a
\* provider call, one of them between its two reads
C6_Witness ==
    \E c, d \in CallIds :
        /\ c # d
        /\ calls[c].ticker # calls[d].ticker
        /\ calls[c].pc = "fetch2"
        /\ calls[d].pc = "fetch"

\* C7: the statement output has one record per table column, in column order,
\* and each record's "date" is the column key as YYYY-MM-DD for a timestamp and
\* the key's string form otherwise, whatever the metric names are.
C7_OneDatedRecordPerColumn ==
    \A c \in CallIds :
        Normalized(c) =>
            LET table == yahoo[calls[c].ticker].statement
                result == calls[c].doc
            IN /\ Len(result) = Len(table.columns)
               /\ \A j \in 1..Len(result) :
                    /\ "date" \in DictKeys(result[j])
                    /\ DictGet(result[j], "date") = PyStr(date_str(table.columns[j]))

\* C8: the record of every column holds an entry for every metric of the table,
\* null where the cell is NaN/missing and the cell's value otherwise; the
\* returned JSON holds no NaN.
C8_EveryCellKeptNaNAsNull ==
    \A c \in CallIds :
        Normalized(c) =>
            LET table == yahoo[calls[c].ticker].statement
                result == calls[c].doc
            IN /\ Len(result) = Len(table.columns)
               /\ \A j \in 1..Len(table.columns) : \A i \in 1..Len(table.index) :
                    /\ table.index[i] \in DictKeys(result[j])
                    /\ DictGet(result[j], table.index[i]) =
                         (IF table.cells[i][j] \in {PyNaN, PyNone}
                          THEN PyNone ELSE table.cells[i][j])
               /\ calls[c].result = json_dumps_list(result)
               /\ ~Contains(calls[c].result, "NaN")

C8_Witness ==
    \E c \in CallIds :
        /\ Normalized(c)
        /\ LET table == yahoo[calls[c].ticker].statement IN
            /\ Len(table.columns) = 2
            /\ Len(table.index) = 2
            /\ table.cells[1][1] = PyNaN
            /\ table.cells[2][1] = PyFloat("7.0")
        /\ Contains(calls[c].result, "null")

\* C9: the keys get_stock_info returns are the bag's keys that are in the
\* allow-list, each with the value it has in the bag.
C9_ProjectionOntoAllowList ==
    \A c \in CallIds :
        (Done(c) /\ calls[c].tool = "get_stock_info" /\ Resolved(c) /\ ~calls[c].raised) =>
            LET info == yahoo[calls[c].ticker].info
                trimmed_info == calls[c].doc
            IN /\ DictKeys(trimmed_info) = DictKeys(info) \cap relevant_keys
               /\ \A i, j \in 1..Len(trimmed_info) :
                    trimmed_info[i][1] = trimmed_info[j][1] => i = j
               /\ \A k \in DictKeys(trimmed_info) : DictGet(trimmed_info, k) = DictGet(info, k)
               /\ calls[c].result = json_object(trimmed_info)

C9_Witness ==
    \E c \in CallIds :
        /\ Done(c) /\ calls[c].tool = "get_stock_info" /\ Resolved(c) /\ ~calls[c].raised
        /\ DictKeys(yahoo[calls[c].ticker].info) = {"symbol", "address1", "beta"}
        /\ DictKeys(calls[c].doc) = {"symbol", "beta"}

\* C10: in get_financial_statement the ticker check comes first: a ticker that
\* does not resolve gives the not-found string, a resolution that raises gives
\* the resolution error, whatever financial_type is; the validation error is
\* returned only for tickers that resolve; none of these reads a statement accessor.
C10_TickerCheckedBeforeType ==
    \A c \in CallIds :
        (Done(c) /\ calls[c].tool = "get_financial_statement" /\ Handled(c)) =>
            LET call == calls[c]
                unresolved == yahoo[call.ticker].isin = PyNone
                raisedAtIsin == Event("isin", "raise") \in Range(call.trace)
                invalid == StartsWith(call.result, "Error: invalid financial type ")
                noRead == SelectSeq(Ops(c), IsDataAccessor) = <<>>
            IN /\ raisedAtIsin =>
                    /\ call.result = ErrorMsg(call.tool, call.ticker, ProviderError)
                    /\ ~call.raised /\ noRead
               /\ (unresolved /\ ~raisedAtIsin) =>
                    /\ call.result = NotFoundMsg(call.ticker)
                    /\ ~call.raised /\ noRead
               /\ invalid => (~unresolved /\ ~raisedAtIsin /\ noRead)

C10_Witness ==
    \E c \in CallIds :
        /\ Done(c)
        /\ calls[c].tool = "get_financial_statement"
        /\ calls[c].financial_type = "bogus"
        /\ yahoo[calls[c].ticker].isin = PyNone
        /\ calls[c].result = NotFoundMsg(calls[c].ticker)

====
